---- MODULE Spec2Model ----
(***************************************************************************)
(* Model of the HR Absenteeism Predictor frontend: the NLP query page      *)
(* (query session state and result rendering), the Predictions page (form  *)
(* validation, prediction mutation) and the router that mounts them.       *)
(*                                                                         *)
(* Texts are sequences of tokens: a token is either the whitespace token   *)
(* " " or a word without whitespace, so String.prototype.trim is the       *)
(* removal of the leading and trailing " " tokens.                         *)
(***************************************************************************)
EXTENDS Integers, Sequences, FiniteSets, TLC

VARIABLES
    route,          \* the route element currently mounted by <Routes>
    query,          \* NLPQuery: useState('') input text
    history,        \* NLPQuery: useState([]) list of {query, response}
    nlpMutation,    \* NLPQuery: useMutation state {status, data}
    nlpSent,        \* network: number of POST /nlp/query requests sent
    nlpInflight,    \* network: the unsettled query requests of the mounted page
    nlpOrphans,     \* network: the unsettled query requests of unmounted pages
    form,           \* Predictions: react-hook-form field values
    errors,         \* Predictions: formState.errors, the fields with an error message
    isSubmitted,    \* Predictions: formState.isSubmitted
    edits,          \* number of field edits made so far (bounds the behaviours)
    showAdvanced,   \* Predictions: useState(false)
    result,         \* Predictions: useState<PredictionResult | null>(null)
    predMutation,   \* Predictions: useMutation state {status, data}
    predSent,       \* network: number of POST /predictions/single requests sent
    predInflight,   \* network: the unsettled prediction requests of the mounted page
    predOrphans,    \* network: the unsettled prediction requests of unmounted pages
    response,       \* renderer: the NLPQueryResponse handed to renderResult
    rendered,       \* renderer: what renderResult returned for it
    filters,        \* Employees: useState<EmployeeFilters>
    showFilters,    \* Employees: useState(false)
    empData,        \* Employees: useQuery data, the response on display
    dataset         \* server: pages of employees without and with a filter

nlpVars == <<query, history, nlpMutation, nlpSent, nlpInflight, nlpOrphans>>
predVars == <<form, errors, isSubmitted, edits, showAdvanced, result, predMutation, predSent, predInflight,
             predOrphans>>
renderVars == <<response, rendered>>
empVars == <<filters, showFilters, empData, dataset>>
vars == <<route, nlpVars, predVars, renderVars, empVars>>

----------------------------------------------------------------------------
(* Bounds of the model *)

\* query requests a behaviour may send
MaxRequests == 3
\* pages of employees the server may hold
MaxPages == 3
\* prediction requests a behaviour may send
MaxPredictions == 2
\* form fields a behaviour may edit
MaxEdits == 1

----------------------------------------------------------------------------
(* Texts *)

\* what the user may type into the query input
Texts ==
    { <<>>, <<" ">>, <<" ", "a", " ">> }

IsSpace(c) == c = " "

RECURSIVE TrimStart(_)
TrimStart(s) ==
    IF s # <<>> /\ IsSpace(Head(s)) THEN TrimStart(Tail(s)) ELSE s

RECURSIVE TrimEnd(_)
TrimEnd(s) ==
    IF s # <<>> /\ IsSpace(s[Len(s)]) THEN TrimEnd(SubSeq(s, 1, Len(s) - 1)) ELSE s

\* String.prototype.trim
Trim(s) == TrimEnd(TrimStart(s))

\* Array.prototype.slice(0, n)
Slice0(s, n) == SubSeq(s, 1, IF Len(s) < n THEN Len(s) ELSE n)

Range(s) == { s[i] : i \in 1..Len(s) }

----------------------------------------------------------------------------
(* Routing *)

DeclaredRoutes == { "/", "/predictions", "/employees", "/analytics", "/query" }

\* paths the sidebar links to
Paths == DeclaredRoutes \cup { "/settings", "/help" }

\* MatchRoute without the "*" route
MatchRouteNoCatchAll(path) == path

\* <Routes>: the first matching <Route>, "*" navigates to "/"
MatchRoute(path) == IF path \in DeclaredRoutes THEN path ELSE "/"

----------------------------------------------------------------------------
(* NLP query page: session state *)

\* what the server may answer to a query, apart from the request it answers
ServerReplies ==
    { [result_type |-> "metric", suggestions |-> <<>>],
      [result_type |-> "text", suggestions |-> << <<"b">> >>] }

\* the response to request r; req and asked are the network's bookkeeping of
\* which request a response answers and what it asked, the page reads neither
Reply(r, body) ==
    [req |-> r.req, asked |-> r.body,
     result_type |-> body.result_type, suggestions |-> body.suggestions]

NoResponse == [req |-> 0, asked |-> <<>>, result_type |-> "", suggestions |-> <<>>]

\* useQuery(['query-suggestions']): the list GET /nlp/suggestions returned
suggestions ==
    << <<"a">>, <<"b">> >>

\* the example buttons of the empty state
Examples ==
    { <<"Show", " ", "employees", " ", "over", " ", "40">>,
      <<"What's", " ", "the", " ", "average", " ", "absence?">>,
      <<"Compare", " ", "smokers", " ", "vs", " ", "non-smokers">> }

\* the texts some rendered button hands to handleSuggestionClick
ClickableSuggestions ==
    Range(Slice0(suggestions, 4))
    \cup UNION { Range(Slice0(history[i].response.suggestions, 3)) : i \in 1..Len(history) }
    \cup (IF history = <<>> THEN Examples ELSE {})

\* a mutation observer before mutate() was called
IdleMutation(noData) == [status |-> "idle", data |-> noData]

isPending(mutation) == mutation.status = "pending"
isError(mutation) == mutation.status = "error"

\* PrependEntry with the new entry put last
AppendEntry(prev, q, resp) == Append(prev, [query |-> q, response |-> resp])

\* setHistory((prev) => [{ query, response }, ...prev])
PrependEntry(prev, q, resp) == <<[query |-> q, response |-> resp]>> \o prev

\* nlpOnSuccess without setQuery('')
nlpOnSuccessKeepingQuery(resp) ==
    /\ history' = PrependEntry(history, query, resp)
    /\ query' = query

\* mutation.onSuccess, read from the latest render: useMutation hands the
\* options (and with them this closure over query) to the observer after
\* every render, so query is the input's text when the response arrives
nlpOnSuccess(resp) ==
    /\ history' = PrependEntry(history, query, resp)
    /\ query' = <<>>

\* <input onChange={(e) => setQuery(e.target.value)} disabled={mutation.isPending}>
TypeQuery(text) ==
    /\ route = "/query"
    /\ ~isPending(nlpMutation)
    /\ query' = text
    /\ UNCHANGED <<route, history, nlpMutation, nlpSent, nlpInflight, nlpOrphans, predVars,
                   renderVars, empVars>>

\* handleSuggestionClick: the suggestion, related and example buttons stay
\* enabled while a request is pending
handleSuggestionClick(suggestion) ==
    /\ route = "/query"
    /\ suggestion \in ClickableSuggestions
    /\ query' = suggestion
    /\ UNCHANGED <<route, history, nlpMutation, nlpSent, nlpInflight, nlpOrphans, predVars,
                   renderVars, empVars>>

\* nlpSubmitDisabled without the test for a pending request
nlpSubmitDisabledEmptyOnly == Trim(query) = <<>>

\* the submit button's disabled attribute
nlpSubmitDisabled == isPending(nlpMutation) \/ Trim(query) = <<>>

\* nlpMutate with an earlier error kept until a request succeeds
nlpMutateKeepingError(variables) ==
    /\ nlpSent' = nlpSent + 1
    /\ nlpInflight' = nlpInflight \cup { [req |-> nlpSent + 1, body |-> variables] }
    /\ nlpMutation' = [status |-> IF isError(nlpMutation) THEN "error" ELSE "pending",
                       data |-> NoResponse]

\* mutation.mutate(variables): one POST /nlp/query, the observer turns pending
nlpMutate(variables) ==
    /\ nlpSent' = nlpSent + 1
    /\ nlpInflight' = nlpInflight \cup { [req |-> nlpSent + 1, body |-> variables] }
    /\ nlpMutation' = [status |-> "pending", data |-> NoResponse]

\* handleSubmit sending the text as typed
handleSubmitUntrimmed ==
    /\ route = "/query"
    /\ ~isPending(nlpMutation)
    /\ nlpSent < MaxRequests
    /\ query # <<>>
    /\ nlpMutate(query)
    /\ UNCHANGED <<route, query, history, nlpOrphans, predVars, renderVars, empVars>>

\* handleSubmit adding the entry when the request is sent
handleSubmitRecording ==
    /\ route = "/query"
    /\ ~nlpSubmitDisabled
    /\ nlpSent < MaxRequests
    /\ nlpMutate(Trim(query))
    /\ history' = PrependEntry(history, query, NoResponse)
    /\ UNCHANGED <<route, query, nlpOrphans, predVars, renderVars, empVars>>

\* handleSubmit, reached through the form's submit event
handleSubmit ==
    /\ route = "/query"
    /\ ~nlpSubmitDisabled
    /\ nlpSent < MaxRequests
    /\ IF Trim(query) # <<>>
       THEN nlpMutate(Trim(query))
       ELSE UNCHANGED <<nlpSent, nlpInflight, nlpMutation>>
    /\ UNCHANGED <<route, query, history, nlpOrphans, predVars, renderVars, empVars>>

\* POST /nlp/query of request r resolves with a response
QuerySucceeds(r, body) ==
    /\ r \in nlpInflight
    /\ nlpInflight' = nlpInflight \ {r}
    /\ nlpMutation' = [status |-> "success", data |-> Reply(r, body)]
    /\ nlpOnSuccess(Reply(r, body))
    /\ UNCHANGED <<route, nlpSent, nlpOrphans, predVars, renderVars, empVars>>

\* QueryFails with the request sent again instead of reported
QueryFailsRetrying(r) ==
    /\ r \in nlpInflight
    /\ nlpSent' = nlpSent + 1
    /\ nlpInflight' = (nlpInflight \ {r}) \cup { [req |-> nlpSent + 1, body |-> r.body] }
    /\ UNCHANGED <<route, query, history, nlpMutation, nlpOrphans, predVars, renderVars, empVars>>

\* QueryFails with the rejection never delivered to the mutation
QueryFailsSilently(r) ==
    /\ r \in nlpInflight
    /\ nlpInflight' = nlpInflight \ {r}
    /\ UNCHANGED <<route, query, history, nlpMutation, nlpSent, nlpOrphans, predVars, renderVars, empVars>>

\* POST /nlp/query of request r rejects (transport error, HTTP error, the
\* 30 s timeout): the interceptor rethrows, the mutation has no retry and no
\* onError
QueryFails(r) ==
    /\ r \in nlpInflight
    /\ nlpInflight' = nlpInflight \ {r}
    /\ nlpMutation' = [status |-> "error", data |-> NoResponse]
    /\ UNCHANGED <<route, query, history, nlpSent, nlpOrphans, predVars, renderVars, empVars>>

\* {mutation.isError && (<p>Failed to process query. Please try again.</p>)}
nlpErrorBanner ==
    IF isError(nlpMutation) THEN "Failed to process query. Please try again." ELSE ""

\* QueryOrphanSettles with the response put into the mounted page's history
QueryOrphanSettlesIntoPage(req) ==
    /\ req \in nlpOrphans
    /\ nlpOrphans' = nlpOrphans \ {req}
    /\ history' = PrependEntry(history, query,
                                Reply([req |-> req, body |-> <<>>],
                                      CHOOSE body \in ServerReplies : TRUE))
    /\ UNCHANGED <<route, query, nlpMutation, nlpSent, nlpInflight, predVars, renderVars, empVars>>

\* a query request of an unmounted page settles, either way: its callbacks
\* reach no mounted component
QueryOrphanSettles(req) ==
    /\ req \in nlpOrphans
    /\ nlpOrphans' = nlpOrphans \ {req}
    /\ UNCHANGED <<route, query, history, nlpMutation, nlpSent, nlpInflight, predVars,
                   renderVars, empVars>>

----------------------------------------------------------------------------
(* Predictions page: form, validation, prediction mutation *)

Fields ==
    { "reason_for_absence", "month_of_absence", "day_of_week", "seasons",
      "transportation_expense", "distance_from_residence", "service_time", "age",
      "workload_average", "hit_target", "disciplinary_failure", "education", "son",
      "social_drinker", "social_smoker", "pet", "weight", "height", "bmi" }

\* the fields rendered only while showAdvanced is set; the others are always
\* rendered
AdvancedFields ==
    { "bmi", "weight", "height", "seasons", "transportation_expense",
      "distance_from_residence", "workload_average", "hit_target", "disciplinary_failure",
      "son", "social_drinker", "social_smoker", "pet" }

\* a field's value as register(name, { valueAsNumber: true }) reads it:
\* a number, or NaN for an input left empty
Num(n) == [nan |-> FALSE, n |-> n]
NaN == [nan |-> TRUE, n |-> 0]

\* z.number().min(lo).max(hi), and z.number().min(lo)
MinMax(lo, hi) == [min |-> lo, bounded |-> TRUE, max |-> hi]
Min(lo) == [min |-> lo, bounded |-> FALSE, max |-> lo]

predictionSchema ==
    [ reason_for_absence |-> MinMax(0, 28),
      month_of_absence |-> MinMax(1, 12),
      day_of_week |-> MinMax(2, 6),
      seasons |-> MinMax(1, 4),
      transportation_expense |-> Min(0),
      distance_from_residence |-> Min(0),
      service_time |-> Min(0),
      age |-> MinMax(18, 70),
      workload_average |-> Min(0),
      hit_target |-> MinMax(0, 100),
      disciplinary_failure |-> MinMax(0, 1),
      education |-> MinMax(1, 4),
      son |-> Min(0),
      social_drinker |-> MinMax(0, 1),
      social_smoker |-> MinMax(0, 1),
      pet |-> Min(0),
      weight |-> Min(0),
      height |-> Min(0),
      bmi |-> Min(0) ]

defaultValues ==
    [ reason_for_absence |-> Num(23),
      month_of_absence |-> Num(7),
      day_of_week |-> Num(3),
      seasons |-> Num(1),
      transportation_expense |-> Num(250),
      distance_from_residence |-> Num(30),
      service_time |-> Num(10),
      age |-> Num(35),
      workload_average |-> Num(250),
      hit_target |-> Num(95),
      disciplinary_failure |-> Num(0),
      education |-> Num(2),
      son |-> Num(1),
      social_drinker |-> Num(1),
      social_smoker |-> Num(0),
      pet |-> Num(0),
      weight |-> Num(75),
      height |-> Num(170),
      bmi |-> Num(26) ]

\* RuleAccepts with the bounds themselves refused
RuleAcceptsExclusive(rule, v) ==
    /\ ~v.nan
    /\ v.n > rule.min
    /\ rule.bounded => v.n < rule.max

\* RuleAccepts without the upper bound
RuleAcceptsMinOnly(rule, v) ==
    /\ ~v.nan
    /\ v.n >= rule.min

\* one rule of the schema on one value: z.number() refuses NaN, min and max
\* are inclusive
RuleAccepts(rule, v) ==
    /\ ~v.nan
    /\ v.n >= rule.min
    /\ rule.bounded => v.n <= rule.max

\* zodResolver(predictionSchema): the fields whose value the schema refuses
SchemaErrors(values) == { f \in Fields : ~RuleAccepts(predictionSchema[f], values[f]) }

\* the number inputs the model leaves empty
EmptiedFields == { "age", "bmi" }

\* the values a field is given in the model: on both sides of each bound of
\* its rule, and NaN for an emptied input. The model lets every field take
\* them, also the fields the page renders as a select, so that the schema is
\* the only gate before the request
FieldSamples(f) ==
    LET rule == predictionSchema[f] IN
    { Num(rule.min - 1), Num(rule.min) }
    \cup (IF rule.bounded THEN { Num(rule.max), Num(rule.max + 1) } ELSE {})
    \cup (IF f \in EmptiedFields THEN { NaN } ELSE {})

\* what POST /predictions/single may answer
factorAge == [feature |-> "age", contribution |-> 2, description |-> "older"]
factorBmi == [feature |-> "bmi", contribution |-> -1, description |-> "lean"]
factorExpense == [feature |-> "transportation_expense", contribution |-> 0, description |-> "flat"]

PredictionResults ==
    { [predicted_hours |-> 4, risk_level |-> "low", confidence_interval |-> <<2, 6>>,
       top_factors |-> <<factorAge, factorBmi, factorExpense>>, explanation |-> "e1",
       explanation_source |-> "llm"],
      [predicted_hours |-> 20, risk_level |-> "critical", confidence_interval |-> <<15, 25>>,
       top_factors |-> <<>>, explanation |-> "", explanation_source |-> "fallback"] }

\* useState<PredictionResult | null>(null): no result
NoResult ==
    [predicted_hours |-> 0, risk_level |-> "", confidence_interval |-> <<>>,
     top_factors |-> <<>>, explanation |-> "", explanation_source |-> ""]

\* f.feature.length > 15 ? f.feature.slice(0, 15) + '...' : f.feature
BarName(feature) ==
    IF Len(feature) > 15 THEN SubSeq(feature, 1, 15) \o "..." ELSE feature

\* result?.top_factors.map(...) || []: the bars of the contributing-factors chart
featureChartData ==
    [i \in 1..Len(result.top_factors) |->
        [name |-> BarName(result.top_factors[i].feature),
         value |-> result.top_factors[i].contribution,
         fullName |-> result.top_factors[i].feature,
         description |-> result.top_factors[i].description]]

\* CellFill with the colours exchanged
CellFillExchanged(entry) == IF entry.value > 0 THEN "#10b981" ELSE "#ef4444"

\* <Cell fill={entry.value > 0 ? '#ef4444' : '#10b981'} />
CellFill(entry) == IF entry.value > 0 THEN "#ef4444" ELSE "#10b981"

\* featureChartData.map((entry, index) => <Cell .../>)
Cells == [i \in 1..Len(featureChartData) |-> CellFill(featureChartData[i])]

\* register(...).onChange of a rendered field; once the form was submitted
\* the field is validated again on every change (reValidateMode 'onChange')
SetField(f, v) ==
    /\ route = "/predictions"
    /\ f \in AdvancedFields => showAdvanced
    /\ edits < MaxEdits
    /\ form[f] # v
    /\ form' = [form EXCEPT ![f] = v]
    /\ errors' = IF ~isSubmitted THEN errors
                 ELSE IF RuleAccepts(predictionSchema[f], v) THEN errors \ {f}
                 ELSE errors \cup {f}
    /\ edits' = edits + 1
    /\ UNCHANGED isSubmitted
    /\ UNCHANGED <<route, nlpVars, showAdvanced, result, predMutation, predSent,
                   predInflight, predOrphans, renderVars, empVars>>

\* ToggleAdvanced with the hidden fields unregistered: hiding the section
\* puts its fields back to their default values
ToggleAdvancedUnregistering ==
    /\ route = "/predictions"
    /\ showAdvanced' = ~showAdvanced
    /\ form' = IF showAdvanced
               THEN [f \in Fields |-> IF f \in AdvancedFields THEN defaultValues[f] ELSE form[f]]
               ELSE form
    /\ UNCHANGED <<route, nlpVars, errors, isSubmitted, edits, result, predMutation,
                   predSent, predInflight, predOrphans, renderVars, empVars>>

\* onClick={() => setShowAdvanced(!showAdvanced)}
ToggleAdvanced ==
    /\ route = "/predictions"
    /\ showAdvanced' = ~showAdvanced
    /\ UNCHANGED <<route, nlpVars, form, errors, isSubmitted, edits, result, predMutation,
                   predSent, predInflight, predOrphans, renderVars, empVars>>

\* onSubmit: mutation.mutate(data), one POST /predictions/single
onSubmit(data) ==
    /\ predSent' = predSent + 1
    /\ predInflight' = predInflight \cup { [req |-> predSent + 1, body |-> data] }
    /\ predMutation' = [status |-> "pending", data |-> NoResult]

\* the submit button's disabled attribute
predSubmitDisabled == isPending(predMutation)

\* handleSubmit(onSubmit) of react-hook-form: onSubmit runs with the
\* resolver's values only if the resolver reports no error
SubmitPrediction ==
    /\ route = "/predictions"
    /\ ~predSubmitDisabled
    /\ predSent < MaxPredictions
    /\ errors' = SchemaErrors(form)
    /\ isSubmitted' = TRUE
    /\ IF SchemaErrors(form) = {}
       THEN onSubmit(form)
       ELSE UNCHANGED <<predSent, predInflight, predMutation>>
    /\ UNCHANGED <<route, nlpVars, form, edits, showAdvanced, result, predOrphans, renderVars, empVars>>

\* ResultAfterSuccess merging: a field the new result leaves empty keeps the
\* value displayed before
MergedResult(prev, data) ==
    [data EXCEPT !.top_factors = IF @ = <<>> THEN prev.top_factors ELSE @,
                 !.explanation = IF @ = "" THEN prev.explanation ELSE @]

\* setResult(data)
ResultAfterSuccess(prev, data) == data

\* POST /predictions/single of request r resolves with a PredictionResult
PredictionSucceeds(r, data) ==
    /\ r \in predInflight
    /\ predInflight' = predInflight \ {r}
    /\ predMutation' = [status |-> "success", data |-> data]
    /\ result' = ResultAfterSuccess(result, data)
    /\ UNCHANGED <<route, nlpVars, form, errors, isSubmitted, edits, showAdvanced, predSent,
                   predOrphans, renderVars, empVars>>

\* PredictionFails with the displayed result cleared
PredictionFailsClearing(r) ==
    /\ r \in predInflight
    /\ predInflight' = predInflight \ {r}
    /\ predMutation' = [status |-> "error", data |-> NoResult]
    /\ result' = NoResult
    /\ UNCHANGED <<route, nlpVars, form, errors, isSubmitted, edits, showAdvanced, predSent,
                   predOrphans, renderVars, empVars>>

\* POST /predictions/single of request r rejects: no retry, no onError
PredictionFails(r) ==
    /\ r \in predInflight
    /\ predInflight' = predInflight \ {r}
    /\ predMutation' = [status |-> "error", data |-> NoResult]
    /\ UNCHANGED <<route, nlpVars, form, errors, isSubmitted, edits, showAdvanced, result,
                   predSent, predOrphans, renderVars, empVars>>

\* {mutation.isError && (<div>Failed to generate prediction. Please try again.</div>)}
predErrorMessage ==
    IF isError(predMutation) THEN "Failed to generate prediction. Please try again." ELSE ""

\* a prediction request of an unmounted page settles, either way
PredictionOrphanSettles(req) ==
    /\ req \in predOrphans
    /\ predOrphans' = predOrphans \ {req}
    /\ UNCHANGED <<route, nlpVars, form, errors, isSubmitted, edits, showAdvanced, result,
                   predMutation, predSent, predInflight, renderVars, empVars>>

----------------------------------------------------------------------------
(* Employees page *)

\* an optional number of EmployeeFilters: undefined, or the number n
NoFilter == [set |-> FALSE, n |-> 0]
Only(n) == [set |-> TRUE, n |-> n]

\* useState<EmployeeFilters>({ page: 1, page_size: 15, sort_by:
\* 'absenteeism_hours', sort_order: 'desc' }), the filter keys undefined
initialFilters ==
    [page |-> 1, page_size |-> 15, sort_by |-> "absenteeism_hours", sort_order |-> "desc",
     min_age |-> NoFilter, max_age |-> NoFilter, min_absence |-> NoFilter,
     max_absence |-> NoFilter, education |-> NoFilter]

\* useQuery data while the request of the current key has not resolved
NoEmployees == [loaded |-> FALSE, page |-> 0, total_pages |-> 0]

\* the columns whose header calls handleSort
SortFields == { "age", "service_time", "bmi", "absenteeism_hours" }

\* the keys the filter panel edits
FilterKeys == { "min_age", "max_age", "min_absence", "max_absence", "education" }

\* e.target.value ? Number(e.target.value) : undefined, of an input emptied
\* or filled
FilterSamples(key) == { NoFilter, IF key = "education" THEN Only(1) ELSE Only(30) }

\* the datasets of the model: pages of 15 employees in all, and pages of the
\* employees a filter keeps
Datasets == { [all |-> a, filtered |-> f] : a \in 0..MaxPages, f \in 0..MaxPages }

\* GET /employees: the page asked for, and the pages there are for the
\* filters of the request
getEmployees(f) ==
    [loaded |-> TRUE,
     page |-> f.page,
     total_pages |-> IF \A key \in FilterKeys : f[key] = NoFilter
                     THEN dataset.all
                     ELSE IF dataset.filtered < dataset.all THEN dataset.filtered
                          ELSE dataset.all]

\* setFilters under useQuery({ queryKey: ['employees', filters] }): a new key
\* has no data until its request resolves
setFilters(next) ==
    /\ filters' = next
    /\ empData' = IF next = filters THEN empData ELSE NoEmployees
    /\ UNCHANGED <<route, nlpVars, predVars, renderVars, showFilters, dataset>>

\* handleSort toggling the order on every click, whatever the column
handleSortTogglingAnyColumn(field) ==
    /\ route = "/employees"
    /\ setFilters([filters EXCEPT
            !.sort_by = field,
            !.sort_order = IF filters.sort_order = "asc" THEN "desc" ELSE "asc",
            !.page = 1])

\* a click on a sortable column header
handleSort(field) ==
    /\ route = "/employees"
    /\ setFilters([filters EXCEPT
            !.sort_by = field,
            !.sort_order = IF filters.sort_by = field /\ filters.sort_order = "asc"
                           THEN "desc" ELSE "asc",
            !.page = 1])

\* setFilters((prev) => ({ ...prev, page: newPage }))
handlePageChange(newPage) ==
    setFilters([filters EXCEPT !.page = newPage])

\* the pagination bar: {data && data.total_pages > 1 && (...)}
paginationShown == empData.loaded /\ empData.total_pages > 1

\* the previous button, disabled={data.page <= 1}
PreviousPage ==
    /\ route = "/employees"
    /\ paginationShown
    /\ ~(empData.page <= 1)
    /\ handlePageChange(empData.page - 1)

\* NextPage with the button never disabled
NextPageNeverDisabled ==
    /\ route = "/employees"
    /\ paginationShown
    /\ empData.page <= MaxPages
    /\ handlePageChange(empData.page + 1)

\* the next button, disabled={data.page >= empData.total_pages}
NextPage ==
    /\ route = "/employees"
    /\ paginationShown
    /\ ~(empData.page >= empData.total_pages)
    /\ handlePageChange(empData.page + 1)

\* handleFilterChange without the page reset
handleFilterChangeKeepingPage(key, value) ==
    /\ route = "/employees"
    /\ showFilters
    /\ setFilters([filters EXCEPT ![key] = value])

\* onChange of an input of the filter panel
handleFilterChange(key, value) ==
    /\ route = "/employees"
    /\ showFilters
    /\ setFilters([filters EXCEPT ![key] = value, !.page = 1])

\* the Filters button: setShowFilters(!showFilters)
ToggleFilters ==
    /\ route = "/employees"
    /\ showFilters' = ~showFilters
    /\ UNCHANGED <<route, nlpVars, predVars, renderVars, filters, empData, dataset>>

\* the Clear Filters button of the filter panel
ClearFilters ==
    /\ route = "/employees"
    /\ showFilters
    /\ setFilters(initialFilters)

\* the request of the current key resolves
EmployeesLoaded ==
    /\ route = "/employees"
    /\ ~empData.loaded
    /\ empData' = getEmployees(filters)
    /\ UNCHANGED <<route, nlpVars, predVars, renderVars, filters, showFilters, dataset>>

----------------------------------------------------------------------------
(* Router: a page's state lives in the mounted component *)

\* a NavLink of the sidebar is followed: <Routes> unmounts the element of the
\* old route and mounts the element of the new one with fresh state; the
\* requests the old page left in flight stay in flight
Navigate(path) ==
    /\ MatchRoute(path) # route
    /\ route' = MatchRoute(path)
    /\ IF route = "/query"
       THEN /\ query' = <<>>
            /\ history' = <<>>
            /\ nlpMutation' = IdleMutation(NoResponse)
            /\ nlpInflight' = {}
            /\ nlpOrphans' = nlpOrphans \cup { r.req : r \in nlpInflight }
            /\ UNCHANGED nlpSent
       ELSE UNCHANGED nlpVars
    /\ IF route = "/predictions"
       THEN /\ form' = defaultValues
            /\ errors' = {}
            /\ isSubmitted' = FALSE
            /\ showAdvanced' = FALSE
            /\ result' = NoResult
            /\ predMutation' = IdleMutation(NoResult)
            /\ predInflight' = {}
            /\ predOrphans' = predOrphans \cup { r.req : r \in predInflight }
            /\ UNCHANGED <<edits, predSent>>
       ELSE UNCHANGED predVars
    /\ IF route = "/employees"
       THEN /\ filters' = initialFilters
            /\ showFilters' = FALSE
            /\ empData' = NoEmployees
            /\ UNCHANGED dataset
       ELSE UNCHANGED empVars
    /\ UNCHANGED renderVars

----------------------------------------------------------------------------
(* JavaScript values of a response payload *)

\* A value is a record of one shape: t is its type, n the number, s the
\* string, a the own properties of an object or array, in the order
\* JSON.parse created them (an array's properties are its indices).
JV(t, n, s, a) == [t |-> t, n |-> n, s |-> s, a |-> a]
Undefined == JV("undefined", 0, "", <<>>)
Null == JV("null", 0, "", <<>>)
JNaN == JV("NaN", 0, "", <<>>)
JNum(n) == JV("number", n, "", <<>>)
JStr(str) == JV("string", 0, str, <<>>)
Prop(key, v) == [k |-> key, v |-> v]
JObj(props) == JV("object", 0, "", props)

\* the property names of array indices, and the index each names
IndexKeys == <<"0", "1", "2", "3", "4", "5", "6", "7", "8", "9", "10", "11">>
IsIndexKey(key) == \E i \in 1..Len(IndexKeys) : IndexKeys[i] = key

JArr(items) == JV("array", 0, "", [i \in 1..Len(items) |-> Prop(IndexKeys[i], items[i])])

IsNullish(v) == v.t \in {"undefined", "null"}
IsArray(v) == v.t = "array"
\* typeof v === 'object'
TypeofObject(v) == v.t \in {"object", "array", "null"}

\* key in v, for an object or array v
HasProp(v, key) == \E i \in 1..Len(v.a) : v.a[i].k = key

\* v.key for a v that is not null or undefined (reading those throws)
Get(v, key) ==
    IF HasProp(v, key)
    THEN v.a[CHOOSE i \in 1..Len(v.a) : v.a[i].k = key].v
    ELSE Undefined

\* v.length of an array
Length(v) == Len(v.a)

\* the elements of an array, in index order
Items(v) == [i \in 1..Len(v.a) |-> v.a[i].v]

\* ToBoolean
Truthy(v) ==
    CASE v.t \in {"undefined", "null", "NaN"} -> FALSE
      [] v.t = "number" -> v.n # 0
      [] v.t = "string" -> v.s # ""
      [] v.t \in {"object", "array"} -> TRUE

\* Coalesce as a || b
LogicalOr(a, b) == IF Truthy(a) THEN a ELSE b

\* a ?? b
Coalesce(a, b) == IF IsNullish(a) THEN b ELSE a

\* the decimal text of an integer
Digits == <<"0", "1", "2", "3", "4", "5", "6", "7", "8", "9">>
RECURSIVE NatText(_)
NatText(n) == IF n < 10 THEN Digits[n + 1] ELSE NatText(n \div 10) \o Digits[(n % 10) + 1]
IntText(n) == IF n < 0 THEN "-" \o NatText(-n) ELSE NatText(n)

\* String(v) of a primitive or a plain object
StringOf(v) ==
    CASE v.t = "string" -> v.s
      [] v.t = "number" -> IntText(v.n)
      [] v.t = "NaN" -> "NaN"
      [] v.t = "null" -> "null"
      [] v.t = "undefined" -> "undefined"
      [] v.t = "object" -> "[object Object]"

\* the numeric strings of the payloads of the model
NumericStrings == [s \in {"7"} |-> 7]

\* Number(v) of a primitive or a plain object
ToNumber(v) ==
    CASE v.t = "number" -> v
      [] v.t = "NaN" -> JNaN
      [] v.t = "null" -> JNum(0)
      [] v.t = "undefined" -> JNaN
      [] v.t = "string" ->
            IF v.s = "" THEN JNum(0)
            ELSE IF v.s \in DOMAIN NumericStrings THEN JNum(NumericStrings[v.s])
            ELSE JNaN
      [] v.t = "object" -> JNaN

\* the positions of v.a in own-property order: index keys ascending, then
\* the other keys in creation order
RECURSIVE OrderedProps(_, _)
OrderedProps(props, idx) ==
    IF idx > Len(IndexKeys)
    THEN SelectSeq(props, LAMBDA p : ~IsIndexKey(p.k))
    ELSE SelectSeq(props, LAMBDA p : p.k = IndexKeys[idx]) \o OrderedProps(props, idx + 1)

\* Object.entries(v) of an object, an array or a number
ObjectEntries(v) ==
    CASE v.t \in {"object", "array"} -> OrderedProps(v.a, 1)
      [] v.t \in {"number", "NaN"} -> <<>>

----------------------------------------------------------------------------
(* NLP query page: renderResult and its components *)

\* records TableResult displays
TableLimit == 10

\* What rendering returns, as a record of one shape:
\*   kind    "p" (a paragraph of text), "table", "metric", "chart",
\*           "throw" (the component threw a TypeError), "none" (not rendered)
\*   text    the paragraph's text
\*   rows    the table's rows, five cells each
\*   total   N of the note 'Showing 10 of N results', 0 without the note
\*   metric  the metric card's value, label and sample-size children
\*   series  the chart's points
Element(kind, text, rows, total, metric, series) ==
    [kind |-> kind, text |-> text, rows |-> rows, total |-> total,
     metric |-> metric, series |-> series]

Paragraph(text) == Element("p", text, <<>>, 0, <<>>, <<>>)
Throw == Element("throw", "", <<>>, 0, <<>>, <<>>)
NotRendered == Element("none", "", <<>>, 0, <<>>, <<>>)

\* the body rows of TableResult's table for one record
TableRow(record) ==
    << Coalesce(Get(record, "ID"), Coalesce(Get(record, "id"), JStr("-"))),
       Coalesce(Get(record, "Age"), Coalesce(Get(record, "age"), JStr("-"))),
       Coalesce(Get(record, "Service time"), Coalesce(Get(record, "service_time"), JStr("-"))),
       JStr(StringOf(Coalesce(Get(record, "Reason for absence"),
                              Coalesce(Get(record, "reason_for_absence"), JStr("-"))))),
       Coalesce(Get(record, "Absenteeism time in hours"),
                Coalesce(Get(record, "absenteeism_hours"), JStr("-"))) >>

\* TableResult displaying the last records instead of the first
TableResultLastRecords(data) ==
    IF ~IsArray(data) \/ Length(data) = 0
    THEN Paragraph("No results found.")
    ELSE LET records == Items(data)
             skipped == IF Len(records) > TableLimit THEN Len(records) - TableLimit ELSE 0
             displayRecords == SubSeq(records, skipped + 1, Len(records))
         IN  IF \E i \in 1..Len(displayRecords) : IsNullish(displayRecords[i])
             THEN Throw
             ELSE Element("table", "",
                          [i \in 1..Len(displayRecords) |-> TableRow(displayRecords[i])],
                          IF Len(records) > TableLimit THEN Len(records) ELSE 0,
                          <<>>, <<>>)

\* TableResult without the test for an empty array
TableResultAnyArray(data) ==
    IF ~IsArray(data)
    THEN Paragraph("No results found.")
    ELSE Element("table", "",
                 [i \in 1..Len(Slice0(Items(data), TableLimit)) |->
                     TableRow(Slice0(Items(data), TableLimit)[i])],
                 IF Length(data) > TableLimit THEN Length(data) ELSE 0,
                 <<>>, <<>>)

TableResult(data) ==
    IF ~IsArray(data) \/ Length(data) = 0
    THEN Paragraph("No results found.")
    ELSE LET records == Items(data)
             displayRecords == Slice0(records, TableLimit)
         IN  IF \E i \in 1..Len(displayRecords) : IsNullish(displayRecords[i])
             THEN Throw
             ELSE Element("table", "",
                          [i \in 1..Len(displayRecords) |-> TableRow(displayRecords[i])],
                          IF Len(records) > TableLimit THEN Len(records) ELSE 0,
                          <<>>, <<>>)

\* {data.sample_size && (<p>Based on {data.sample_size} records</p>)}
SampleSizeChild(sample_size) ==
    IF Truthy(sample_size)
    THEN JStr("Based on " \o StringOf(sample_size) \o " records")
    ELSE sample_size

MetricResult(data) ==
    IF IsNullish(data)
    THEN Throw
    ELSE Element("metric", "", <<>>, 0,
                 << Get(data, "value"), Get(data, "label"),
                    SampleSizeChild(Get(data, "sample_size")) >>,
                 <<>>)

Point(name, value) == [name |-> name, value |-> value]

\* GroupedSeries with the points in reverse order
GroupedSeriesReversed(groups) ==
    LET entries == ObjectEntries(groups)
        n == Len(entries)
    IN  [i \in 1..n |-> Point(JStr(entries[n + 1 - i].k), ToNumber(entries[n + 1 - i].v))]

\* Object.entries(data.groups).map(([name, value]) => ({ name: String(name), value: Number(value) }))
GroupedSeries(groups) ==
    LET entries == ObjectEntries(groups)
    IN  [i \in 1..Len(entries) |-> Point(JStr(entries[i].k), ToNumber(entries[i].v))]

\* a component's intermediate value, or the TypeError reading a property of
\* null or undefined raised
Value(points) == [threw |-> FALSE, points |-> points]
TypeError == [threw |-> TRUE, points |-> <<>>]

\* TrendSeries with the points in reverse order
TrendSeriesReversed(items) ==
    IF \E i \in 1..Len(items) : IsNullish(items[i])
    THEN TypeError
    ELSE Value([i \in 1..Len(items) |->
                   Point(Get(items[Len(items) + 1 - i], "period"),
                         Get(items[Len(items) + 1 - i], "mean"))])

\* (data.data as TrendDataPoint[]).map((d) => ({ name: d.period, value: d.mean }))
TrendSeries(items) ==
    IF \E i \in 1..Len(items) : IsNullish(items[i])
    THEN TypeError
    ELSE Value([i \in 1..Len(items) |->
                   Point(Get(items[i], "period"), Get(items[i], "mean"))])

\* Object.entries(compData.data).map(([name, stats]) => ({ name: String(name), value: stats.mean }))
ComparisonSeries(inner) ==
    LET entries == ObjectEntries(inner)
    IN  IF \E i \in 1..Len(entries) : IsNullish(entries[i].v)
        THEN TypeError
        ELSE Value([i \in 1..Len(entries) |->
                       Point(JStr(entries[i].k), Get(entries[i].v, "mean"))])

\* the chartData ChartResult computes from a payload that is not null or undefined
ChartData(data) ==
    LET type == Get(data, "type")
    IN  IF type = JStr("grouped") /\ Truthy(Get(data, "groups"))
        THEN Value(GroupedSeries(Get(data, "groups")))
        ELSE IF type = JStr("trend") /\ IsArray(Get(data, "data"))
        THEN TrendSeries(Items(Get(data, "data")))
        ELSE IF type = JStr("comparison")
                /\ Truthy(Get(data, "data")) /\ TypeofObject(Get(data, "data"))
        THEN ComparisonSeries(Get(data, "data"))
        ELSE Value(<<>>)

ChartResult(data) ==
    IF IsNullish(data)
    THEN Throw
    ELSE LET chartData == ChartData(data)
         IN  IF chartData.threw
             THEN Throw
             ELSE IF Len(chartData.points) = 0
             THEN Paragraph("Unable to visualize this data.")
             ELSE Element("chart", "", <<>>, 0, <<>>, chartData.points)

\* TextResult reading data.response ?? message
TextResultNonNullish(resp) ==
    IF TypeofObject(resp.data) /\ resp.data # Null /\ ~IsNullish(Get(resp.data, "response"))
    THEN Paragraph(StringOf(Get(resp.data, "response")))
    ELSE Paragraph(resp.message)

\* case 'text' of renderResult
TextResult(resp) ==
    IF TypeofObject(resp.data) /\ resp.data # Null /\ HasProp(resp.data, "response")
    THEN Paragraph(StringOf(Get(resp.data, "response")))
    ELSE Paragraph(resp.message)

\* renderResult with the default case falling into case 'text'
renderResultDefaultText(resp) ==
    CASE resp.result_type = "table" -> TableResult(resp.data)
      [] resp.result_type = "metric" -> MetricResult(resp.data)
      [] resp.result_type = "chart_data" -> ChartResult(resp.data)
      [] OTHER -> TextResult(resp)

\* renderResult choosing the table renderer by the payload, whatever the tag
renderResultByPayload(resp) ==
    CASE IsArray(resp.data) -> TableResult(resp.data)
      [] resp.result_type = "metric" -> MetricResult(resp.data)
      [] resp.result_type = "chart_data" -> ChartResult(resp.data)
      [] resp.result_type = "text" -> TextResult(resp)
      [] OTHER -> Paragraph(resp.message)

renderResult(resp) ==
    CASE resp.result_type = "table" -> TableResult(resp.data)
      [] resp.result_type = "metric" -> MetricResult(resp.data)
      [] resp.result_type = "chart_data" -> ChartResult(resp.data)
      [] resp.result_type = "text" -> TextResult(resp)
      [] OTHER -> Paragraph(resp.message)

----------------------------------------------------------------------------
(* Payloads and responses handed to the renderer *)

snakeRecord ==
    JObj(<< Prop("id", JNum(7)), Prop("age", JNum(0)), Prop("service_time", JNum(3)),
            Prop("reason_for_absence", JNum(23)), Prop("absenteeism_hours", JNum(8)) >>)
labeledRecord ==
    JObj(<< Prop("ID", JNum(1)), Prop("Age", JNum(40)), Prop("Service time", JNum(12)),
            Prop("Reason for absence", JNum(0)), Prop("Absenteeism time in hours", JNum(4)) >>)
mixedRecord ==
    JObj(<< Prop("ID", JNum(2)), Prop("id", JNum(9)), Prop("Age", Null), Prop("age", JNum(31)) >>)

zeroRecord ==
    JObj(<< Prop("ID", JNum(0)), Prop("id", JNum(9)), Prop("Age", Null), Prop("age", JNum(0)) >>)

TablePayloads ==
    { JArr(<<>>), JArr(<<snakeRecord>>), JArr(<<zeroRecord>>), JArr(<<labeledRecord, snakeRecord>>),
      JArr(<<mixedRecord, JObj(<<>>)>>), JArr(<<Null>>), JArr(<<JNum(5)>>),
      JArr([i \in 1..TableLimit |-> JObj(<<Prop("id", JNum(i))>>)]),
      JArr([i \in 1..(TableLimit + 1) |-> JObj(<<Prop("id", JNum(i))>>)]) }

MetricPayloads ==
    { JObj(<< Prop("label", JStr("Average")), Prop("value", JNum(6)), Prop("sample_size", JNum(740)) >>),
      JObj(<< Prop("label", JStr("Count")), Prop("value", JNum(0)), Prop("sample_size", JNum(0)) >>),
      JObj(<< Prop("label", JStr("Total")), Prop("value", JNum(12)) >>),
      JObj(<<>>) }

ChartPayloads ==
    { JObj(<< Prop("type", JStr("grouped")),
              Prop("groups", JObj(<< Prop("A", JNum(1)), Prop("B", JNum(2)) >>)) >>),
      JObj(<< Prop("type", JStr("grouped")),
              Prop("groups", JObj(<< Prop("B", JNum(2)), Prop("A", JNum(1)) >>)) >>),
      JObj(<< Prop("type", JStr("grouped")),
              Prop("groups", JObj(<< Prop("x", JNum(5)), Prop("2", JNum(3)), Prop("1", JNum(4)) >>)) >>),
      JObj(<< Prop("type", JStr("grouped")),
              Prop("groups", JObj(<< Prop("A", JStr("7")), Prop("B", Null), Prop("C", JStr("n/a")) >>)) >>),
      JObj(<< Prop("type", JStr("grouped")), Prop("groups", JObj(<<>>)) >>),
      JObj(<< Prop("type", JStr("grouped")), Prop("groups", Null) >>),
      JObj(<< Prop("type", JStr("grouped")) >>),
      JObj(<< Prop("type", JStr("trend")),
              Prop("data", JArr(<< JObj(<< Prop("period", JStr("Jan")), Prop("mean", JNum(5)) >>),
                                   JObj(<< Prop("period", JStr("Feb")), Prop("mean", JNum(3)) >>) >>)) >>),
      JObj(<< Prop("type", JStr("trend")),
              Prop("data", JArr(<< JObj(<< Prop("period", JStr("Jan")), Prop("mean", JNum(5)) >>),
                                   Null >>)) >>),
      JObj(<< Prop("type", JStr("trend")), Prop("data", JArr(<<>>)) >>),
      JObj(<< Prop("type", JStr("trend")) >>),
      JObj(<< Prop("type", JStr("comparison")),
              Prop("data", JObj(<< Prop("smoker", JObj(<<Prop("mean", JNum(9))>>)),
                                   Prop("non-smoker", JObj(<<Prop("mean", JNum(6))>>)) >>)) >>),
      JObj(<< Prop("type", JStr("comparison")),
              Prop("data", JObj(<< Prop("smoker", Null) >>)) >>),
      JObj(<< Prop("type", JStr("comparison")) >>),
      JObj(<< Prop("type", JStr("histogram")),
              Prop("groups", JObj(<< Prop("A", JNum(1)) >>)) >>) }

TextPayloads ==
    { JObj(<< Prop("response", JStr("All good.")) >>),
      JObj(<< Prop("response", JNum(42)) >>),
      JObj(<< Prop("response", Null) >>),
      JObj(<< Prop("answer", JStr("ignored")) >>) }

\* the data of a response: a payload of any handler, or no payload at all
Payloads ==
    TablePayloads \cup MetricPayloads \cup ChartPayloads \cup TextPayloads
    \cup { Undefined, Null, JStr("payload"), JNum(5) }

\* the result_type tags of the contract, and two the dispatcher does not know
ResultTypes == { "table", "metric", "chart_data", "text", "list", "" }

Messages == { "Found 3 employees.", "" }

Responses ==
    [result_type : ResultTypes, data : Payloads, message : Messages]

NoQueryResponse == [result_type |-> "", data |-> Undefined, message |-> ""]

\* a history item's response is rendered
Render ==
    /\ rendered = NotRendered
    /\ rendered' = renderResult(response)
    /\ UNCHANGED <<route, nlpVars, predVars, empVars, response>>

\* the next response reaches the renderer
NextResponse(resp) ==
    /\ rendered # NotRendered
    /\ response' = resp
    /\ rendered' = NotRendered
    /\ UNCHANGED <<route, nlpVars, predVars, empVars>>

----------------------------------------------------------------------------
(* Specifications *)

InitApp ==
    /\ route \in DeclaredRoutes
    /\ query = <<>>
    /\ history = <<>>
    /\ nlpMutation = IdleMutation(NoResponse)
    /\ nlpSent = 0
    /\ nlpInflight = {}
    /\ nlpOrphans = {}
    /\ form = defaultValues
    /\ errors = {}
    /\ isSubmitted = FALSE
    /\ edits = 0
    /\ showAdvanced = FALSE
    /\ result = NoResult
    /\ predMutation = IdleMutation(NoResult)
    /\ predSent = 0
    /\ predInflight = {}
    /\ predOrphans = {}
    /\ filters = initialFilters
    /\ showFilters = FALSE
    /\ empData = NoEmployees

\* the dataset of the specifications that leave the Employees page alone
defaultDataset == [all |-> MaxPages, filtered |-> 1]

\* the application in the browser
Init ==
    /\ InitApp
    /\ dataset = defaultDataset
    /\ response = NoQueryResponse
    /\ rendered = NotRendered

NextQuery ==
    \/ \E text \in Texts : TypeQuery(text)
    \/ \E s \in ClickableSuggestions : handleSuggestionClick(s)
    \/ handleSubmit
    \/ \E r \in nlpInflight, body \in ServerReplies : QuerySucceeds(r, body)
    \/ \E r \in nlpInflight : QueryFails(r)
    \/ \E req \in nlpOrphans : QueryOrphanSettles(req)

NextPredictions ==
    \/ \E f \in Fields : \E v \in FieldSamples(f) : SetField(f, v)
    \/ ToggleAdvanced
    \/ SubmitPrediction
    \/ \E r \in predInflight, data \in PredictionResults : PredictionSucceeds(r, data)
    \/ \E r \in predInflight : PredictionFails(r)
    \/ \E req \in predOrphans : PredictionOrphanSettles(req)

\* the NLP query page and the router
NextQueryPage ==
    \/ \E path \in Paths : Navigate(path)
    \/ NextQuery

SpecQuery == Init /\ [][NextQueryPage]_vars

\* the Predictions page and the router
NextPredictionsPage ==
    \/ \E path \in Paths : Navigate(path)
    \/ NextPredictions

SpecPredictions == Init /\ [][NextPredictionsPage]_vars

\* both pages and the router, on one user's inputs: a padded query text, an
\* age below and an age on the lower bound
NextApp ==
    \/ \E path \in {"/query", "/predictions", "/settings", "/help"} : Navigate(path)
    \/ TypeQuery(<<" ", "a", " ">>)
    \/ handleSubmit
    \/ \E r \in nlpInflight, body \in ServerReplies : QuerySucceeds(r, body)
    \/ \E r \in nlpInflight : QueryFails(r)
    \/ \E req \in nlpOrphans : QueryOrphanSettles(req)
    \/ \E v \in {Num(17), Num(18)} : SetField("age", v)
    \/ SubmitPrediction
    \/ \E r \in predInflight, data \in PredictionResults : PredictionSucceeds(r, data)
    \/ \E r \in predInflight : PredictionFails(r)
    \/ \E req \in predOrphans : PredictionOrphanSettles(req)

SpecApp == Init /\ [][NextApp]_vars

\* a request of the mounted page settles: the server answers, or the request
\* rejects, at the latest when the axios timeout of 30 s expires
QuerySettles ==
    \E r \in nlpInflight : QueryFails(r) \/ \E body \in ServerReplies : QuerySucceeds(r, body)

PredictionSettles ==
    \E r \in predInflight :
        PredictionFails(r) \/ \E data \in PredictionResults : PredictionSucceeds(r, data)

\* both pages and the router, every request settling in the end
SpecAppLive ==
    Init /\ [][NextApp]_vars /\ WF_vars(QuerySettles) /\ WF_vars(PredictionSettles)

\* the renderer alone, on every response of the model
InitRender ==
    /\ InitApp
    /\ route = "/query"
    /\ dataset = defaultDataset
    /\ response \in Responses
    /\ rendered = NotRendered

NextRender ==
    \/ Render
    \/ \E resp \in Responses : NextResponse(resp)

SpecRender == InitRender /\ [][NextRender]_vars

\* the Employees page on every dataset of the model
InitEmployees ==
    /\ InitApp
    /\ route = "/employees"
    /\ dataset \in Datasets
    /\ response = NoQueryResponse
    /\ rendered = NotRendered

NextEmployees ==
    \/ \E field \in SortFields : handleSort(field)
    \/ PreviousPage
    \/ NextPage
    \/ \E key \in FilterKeys : \E value \in FilterSamples(key) : handleFilterChange(key, value)
    \/ ToggleFilters
    \/ ClearFilters
    \/ EmployeesLoaded

\* the Employees page and the router
NextEmployeesPage ==
    \/ \E path \in Paths : Navigate(path)
    \/ NextEmployees

SpecEmployees == InitEmployees /\ [][NextEmployeesPage]_vars

----------------------------------------------------------------------------
(* Properties of the query session (SpecQuery) *)

C1_NewestFirst ==
    \A i \in 1..(Len(history) - 1) : history[i].response.req > history[i + 1].response.req

C1_SuccessPrepends ==
    (isPending(nlpMutation) /\ nlpMutation'.status = "success")
        => /\ Len(history') = Len(history) + 1
           /\ history'[1].response = nlpMutation'.data
           /\ \A i \in 1..Len(history) : history'[i + 1] = history[i]

\* C1: the history is strictly prepend-ordered: after n sequential successful
\* queries it lists their responses newest first, and each success inserts
\* exactly one entry at index 0 and shifts every earlier entry down by one.
C1_PrependOrdered == []C1_NewestFirst /\ [][C1_SuccessPrepends]_vars

\* three sequential queries succeeded: the history is [Q3, Q2, Q1]
C1_Witness ==
    /\ Len(history) = 3
    /\ history[1].response.req = 3
    /\ history[2].response.req = 2
    /\ history[3].response.req = 1

\* C2: every history entry pairs a response with exactly the text that was
\* sent in the request that produced it, also when a suggestion is clicked
\* while the request is in flight and when the text typed has leading or
\* trailing whitespace.
C2_EntryHoldsSentText ==
    \A i \in 1..Len(history) : history[i].query = history[i].response.asked

C9_Preserved ==
    /\ Len(history') >= Len(history)
    /\ \A i \in 1..Len(history) : history'[i + Len(history') - Len(history)] = history[i]

\* C9: the history is append-only and never mutated while the page is not
\* reloaded: over any user events, client-side navigation to another route
\* and back to /query included, its length never decreases and every entry
\* keeps its content and its place relative to the other entries.
C9_AppendOnlyAcrossNavigation == [][C9_Preserved]_vars

C17_Succeeded == isPending(nlpMutation) /\ nlpMutation'.status = "success"

C17_HistoryFrame ==
    route' = route
        => /\ history' # history => C17_Succeeded
           /\ C17_Succeeded
                => /\ Len(history') = Len(history) + 1
                   /\ SubSeq(history', 2, Len(history')) = history

\* C17: the history of the mounted page changes only in the success handler
\* of a query submission: typing, clicking a suggestion or an example, a
\* pending request and a failed request leave it unchanged, and each
\* successful request of the page adds exactly one entry.
C17_HistoryChangesOnlyOnSuccess == [][C17_HistoryFrame]_vars

\* one query succeeded, the next failed, and a suggestion was clicked after
\* that: the history still is the one entry
C17_Witness ==
    /\ route = "/query"
    /\ nlpSent = 2
    /\ isError(nlpMutation)
    /\ query = <<"b">>
    /\ Len(history) = 1
    /\ history[1].response.req = 1

\* a text with something to send: it does not begin or end with whitespace
\* and is not empty
C22_Trimmed(text) == text # <<>> /\ text[1] # " " /\ text[Len(text)] # " "

\* text lies in the input with nothing but whitespace before and after it
C22_IsTrimOf(text, input) ==
    \E i, j \in 0..Len(input) :
        /\ input = [k \in 1..i |-> " "] \o text \o [k \in 1..j |-> " "]

C22_SendsTrimmed ==
    \A r \in nlpInflight' \ nlpInflight :
        /\ C22_Trimmed(r.body)
        /\ C22_IsTrimOf(r.body, query)

C22_BlankSendsNothing ==
    (\A k \in 1..Len(query) : query[k] = " ")
        => (nlpSent' = nlpSent /\ nlpInflight' \subseteq nlpInflight)

\* C22: a query whose text is empty or only whitespace is never sent; a
\* request is issued only when the trimmed text is non-empty, and the text it
\* carries is the trimmed input.
C22_OnlyTrimmedTextIsSent ==
    /\ [](\A r \in nlpInflight : C22_Trimmed(r.body))
    /\ [][C22_SendsTrimmed /\ C22_BlankSendsNothing]_vars

\* the input holds ' a ' and the request in flight carries 'a'
C22_Witness ==
    /\ query = <<" ", "a", " ">>
    /\ nlpInflight = { [req |-> 1, body |-> <<"a">>] }

C23_Failed ==
    /\ route' = route
    /\ isPending(nlpMutation)
    /\ isError(nlpMutation')

C23_InputAfterSettling ==
    /\ C17_Succeeded => query' = <<>>
    /\ C23_Failed => query' = query

\* C23: after a successful query the input text is empty, whatever it held
\* when the response arrived; after a failed query the input text is
\* unchanged, so the same text can be submitted again.
C23_InputClearedOnSuccessOnly == [][C23_InputAfterSettling]_vars

\* the response to 'a' arrived while the input held 'b', and the input is
\* empty now
C23_Witness ==
    /\ route = "/query"
    /\ query = <<>>
    /\ Len(history) = 1
    /\ history[1].query = <<"b">>
    /\ history[1].response.asked = <<"a">>

----------------------------------------------------------------------------
(* Properties of the Predictions page (SpecPredictions) *)

\* the ranges the form declares, field by field: <<lowest>> or <<lowest, highest>>
C3_DeclaredRange ==
    [ reason_for_absence |-> <<0, 28>>, month_of_absence |-> <<1, 12>>,
      day_of_week |-> <<2, 6>>, seasons |-> <<1, 4>>,
      transportation_expense |-> <<0>>, distance_from_residence |-> <<0>>,
      service_time |-> <<0>>, age |-> <<18, 70>>, workload_average |-> <<0>>,
      hit_target |-> <<0, 100>>, disciplinary_failure |-> <<0, 1>>,
      education |-> <<1, 4>>, son |-> <<0>>, social_drinker |-> <<0, 1>>,
      social_smoker |-> <<0, 1>>, pet |-> <<0>>, weight |-> <<0>>, height |-> <<0>>,
      bmi |-> <<0>> ]

C3_WithinBounds(values) ==
    \A f \in Fields :
        /\ ~values[f].nan
        /\ values[f].n >= C3_DeclaredRange[f][1]
        /\ Len(C3_DeclaredRange[f]) = 2 => values[f].n <= C3_DeclaredRange[f][2]

C3_RejectedSendsNothing ==
    ~C3_WithinBounds(form) => (predSent' = predSent /\ predInflight' \subseteq predInflight)

\* C3: a submission in which any field violates its declared bound is
\* rejected by the client-side validation and sends no request; every request
\* sent carries an input that satisfies all 19 bounds.
C3_OnlyValidInputsAreSent ==
    /\ [](\A r \in predInflight : C3_WithinBounds(r.body))
    /\ [][C3_RejectedSendsNothing]_vars

\* age = 17 was submitted: validation reported the field and nothing was sent
C3_Witness ==
    /\ form["age"] = Num(17)
    /\ isSubmitted
    /\ errors = {"age"}
    /\ predSent = 0
    /\ predMutation.status = "idle"

C4_SuccessReplaces ==
    (isPending(predMutation) /\ predMutation'.status = "success")
        => result' = predMutation'.data

\* C4: when a submitted prediction succeeds, the displayed result becomes
\* exactly the result returned: no field of whatever was displayed before
\* survives.
C4_ResultReplacedEntirely == [][C4_SuccessReplaces]_vars

\* the second prediction succeeded with the result that has no factors and no
\* explanation, and exactly that is displayed
C4_Witness ==
    /\ predSent = 2
    /\ predInflight = {}
    /\ predOrphans = {}
    /\ predMutation.status = "success"
    /\ result.risk_level = "critical"
    /\ result.top_factors = <<>>
    /\ result.explanation = ""

C18_AcceptsExactlyInRange == (SchemaErrors(form) = {}) <=> C3_WithinBounds(form)

C18_InRangeSubmissionSends ==
    (SubmitPrediction /\ C3_WithinBounds(form))
        => /\ errors' = {}
           /\ predSent' = predSent + 1
           /\ predInflight' = predInflight \cup { [req |-> predSent', body |-> form] }

\* C18: validation accepts exactly the in-range inputs, bounds included: a
\* form whose every field lies within its declared range (age = 18, age = 70,
\* day_of_week = 2 and day_of_week = 6 among them) passes validation, and
\* submitting it sends one prediction request that carries those values.
C18_InRangeInputsAreSent ==
    []C18_AcceptsExactlyInRange /\ [][C18_InRangeSubmissionSends]_vars

\* age = 18 was submitted and the one request in flight carries it
C18_Witness ==
    /\ form["age"] = Num(18)
    /\ errors = {}
    /\ predSent = 1
    /\ predInflight = { [req |-> 1, body |-> form] }

C19_Toggled == showAdvanced' # showAdvanced /\ route' = route

C19_OutOfRange(f) ==
    \/ form[f].nan
    \/ form[f].n < C3_DeclaredRange[f][1]
    \/ Len(C3_DeclaredRange[f]) = 2 /\ form[f].n > C3_DeclaredRange[f][2]

C19_ToggleFrame ==
    /\ C19_Toggled
         => /\ form' = form
            /\ errors' = errors
            /\ result' = result
            /\ predMutation' = predMutation
            /\ predSent' = predSent
            /\ predInflight' = predInflight
    /\ SubmitPrediction
         => /\ errors' = { f \in Fields : C19_OutOfRange(f) }
            /\ errors' = {} => \E r \in predInflight' \ predInflight : r.body = form

\* C19: toggling the advanced-fields section only flips its visibility: it
\* sends no request and leaves every field value and the displayed result
\* unchanged; a submission validates and sends the advanced fields with
\* their current values whether the section is shown or hidden.
C19_ToggleOnlyFlipsVisibility == [][C19_ToggleFrame]_vars

\* bmi was set to 0 while the section was shown; the section is hidden and
\* the request in flight carries bmi = 0
C19_Witness ==
    /\ ~showAdvanced
    /\ form["bmi"] = Num(0)
    /\ predInflight = { [req |-> 1, body |-> form] }

----------------------------------------------------------------------------
(* Properties of the renderer (SpecRender) *)

KnownResultTypes == { "table", "metric", "chart_data", "text" }

\* C5: a response whose result_type is none of table, metric, chart_data,
\* text is rendered as its message field verbatim, whatever its data is.
C5_UnknownTypeRendersMessage ==
    (rendered # NotRendered /\ response.result_type \notin KnownResultTypes)
        => (rendered.kind = "p" /\ rendered.text = response.message)

\* a response tagged 'list' that carries a data.response text was rendered as
\* its message
C5_Witness ==
    /\ response.result_type = "list"
    /\ response.message = "Found 3 employees."
    /\ response.data = JObj(<< Prop("response", JStr("All good.")) >>)
    /\ rendered = Paragraph("Found 3 employees.")

\* a payload that is empty or malformed for the four renderers: no data, or a
\* null element in a table, in a trend array or in a comparison map
C6_Malformed(data) ==
    \/ IsNullish(data)
    \/ /\ data.t \in {"object", "array"}
       /\ \/ \E i \in 1..Len(data.a) : IsNullish(data.a[i].v)
          \/ /\ HasProp(data, "data")
             /\ Get(data, "data").t \in {"object", "array"}
             /\ \E i \in 1..Len(Get(data, "data").a) : IsNullish(Get(data, "data").a[i].v)

\* C6: for every result_type and every empty or malformed data payload,
\* rendering ends in a placeholder message and never raises an error.
C6_MalformedPayloadRendersPlaceholder ==
    (rendered # NotRendered /\ response.result_type \in KnownResultTypes
        /\ C6_Malformed(response.data))
        => rendered.kind = "p"

\* the grouped payloads of a chart_data response: an inner type 'grouped' and
\* a groups map
C7_IsGrouped(data) ==
    /\ data.t = "object"
    /\ Get(data, "type") = JStr("grouped")
    /\ Get(data, "groups").t = "object"

\* C7: for a chart_data payload of type 'grouped' with a groups map the
\* series has exactly one point per key of groups, in the map's iteration
\* order, each point named by its key and valued by the key's number.
C7_GroupedSeriesFollowsMap ==
    (rendered # NotRendered /\ response.result_type = "chart_data"
        /\ C7_IsGrouped(response.data))
        => LET groups == Get(response.data, "groups")
               entries == ObjectEntries(groups)
           IN  /\ Len(rendered.series) = Len(groups.a)
               /\ \A i \in 1..Len(entries) :
                     /\ rendered.series[i].name = JStr(entries[i].k)
                     /\ entries[i].v.t = "number" => rendered.series[i].value = entries[i].v
               \* without index-like keys the iteration order is the order of the payload
               /\ (\A i \in 1..Len(groups.a) : ~IsIndexKey(groups.a[i].k))
                     => \A i \in 1..Len(groups.a) :
                           rendered.series[i].name = JStr(groups.a[i].k)

\* {type: 'grouped', groups: {A: 1, B: 2}} was rendered as the chart [(A, 1), (B, 2)]
C7_Witness ==
    /\ response.result_type = "chart_data"
    /\ response.data = JObj(<< Prop("type", JStr("grouped")),
                               Prop("groups", JObj(<< Prop("A", JNum(1)), Prop("B", JNum(2)) >>)) >>)
    /\ rendered.kind = "chart"
    /\ rendered.series = << Point(JStr("A"), JNum(1)), Point(JStr("B"), JNum(2)) >>

\* C8: a 'table' response whose data is an empty array renders the single
\* message "No results found.", whatever the other fields of the response are.
C8_EmptyTableRendersNoResults ==
    (rendered # NotRendered /\ response.result_type = "table"
        /\ IsArray(response.data) /\ Length(response.data) = 0)
        => /\ rendered.kind = "p"
           /\ rendered.text = "No results found."
           /\ rendered.rows = <<>>

\* an empty table with a message of its own was rendered as "No results found."
C8_Witness ==
    /\ response.result_type = "table"
    /\ response.data = JArr(<<>>)
    /\ response.message = "Found 3 employees."
    /\ rendered.kind = "p"
    /\ rendered.text = "No results found."

\* C14: every response is rendered by exactly one strategy, which its
\* result_type alone determines: 'table' by the table renderer, 'metric' by
\* the metric renderer, 'chart_data' by the chart renderer, 'text' by the
\* text renderer, whatever the payload looks like.
C14_OneStrategyByResultType ==
    rendered # NotRendered
        => /\ response.result_type = "table"
                => /\ rendered = TableResult(response.data)
                   /\ rendered.kind \in {"table", "p", "throw"}
                   /\ rendered.kind = "p" => rendered.text = "No results found."
           /\ response.result_type = "metric"
                => /\ rendered = MetricResult(response.data)
                   /\ rendered.kind \in {"metric", "throw"}
           /\ response.result_type = "chart_data"
                => /\ rendered = ChartResult(response.data)
                   /\ rendered.kind \in {"chart", "p", "throw"}
                   /\ rendered.kind = "p" => rendered.text = "Unable to visualize this data."
           /\ response.result_type = "text"
                => /\ rendered = TextResult(response)
                   /\ rendered.kind = "p"

\* a response tagged 'metric' that carries an array of records was rendered
\* by the metric renderer
C14_Witness ==
    /\ response.result_type = "metric"
    /\ response.data = JArr(<<snakeRecord>>)
    /\ rendered.kind = "metric"
    /\ rendered.rows = <<>>

\* the five columns: the human-labeled key and the snake_case key of each
C15_Columns ==
    << <<"ID", "id">>, <<"Age", "age">>, <<"Service time", "service_time">>,
       <<"Reason for absence", "reason_for_absence">>,
       <<"Absenteeism time in hours", "absenteeism_hours">> >>

\* the record has a value under the key
C15_Present(record, key) ==
    \E i \in 1..Len(record.a) : record.a[i].k = key /\ record.a[i].v.t \notin {"undefined", "null"}

C15_ValueOf(record, key) ==
    record.a[CHOOSE i \in 1..Len(record.a) : record.a[i].k = key].v

\* the text a column is to show for a record
C15_Shown(record, c) ==
    IF C15_Present(record, C15_Columns[c][1])
    THEN StringOf(C15_ValueOf(record, C15_Columns[c][1]))
    ELSE IF C15_Present(record, C15_Columns[c][2])
    THEN StringOf(C15_ValueOf(record, C15_Columns[c][2]))
    ELSE "-"

\* C15: for a table payload of records (elements that are not null or
\* undefined), each of the five columns of each displayed row shows the
\* record's human-labeled key when it has a value, otherwise its snake_case
\* key when that has a value, otherwise the placeholder '-'; a value of 0 is
\* shown as 0 and not as the placeholder.
C15_ColumnsFallBack ==
    (rendered # NotRendered /\ response.result_type = "table" /\ IsArray(response.data)
        /\ Length(response.data) > 0
        /\ \A i \in 1..Length(response.data) : response.data.a[i].v.t \notin {"undefined", "null"})
        => /\ rendered.kind = "table"
           /\ Len(rendered.rows) =
                 (IF Length(response.data) < TableLimit THEN Length(response.data) ELSE TableLimit)
           /\ \A i \in 1..Len(rendered.rows) : \A c \in 1..5 :
                 StringOf(rendered.rows[i][c]) = C15_Shown(response.data.a[i].v, c)

\* the record {ID: 0, id: 9, Age: null, age: 0} was rendered as the row
\* 0, 0, -, -, -
C15_Witness ==
    /\ response.result_type = "table"
    /\ response.data = JArr(<<zeroRecord>>)
    /\ rendered.kind = "table"
    /\ rendered.rows = << << JNum(0), JNum(0), JStr("-"), JStr("-"), JStr("-") >> >>

\* the inner type of a chart payload is the given one
C16_Type(data, type) == \E i \in 1..Len(data.a) : data.a[i] = Prop("type", JStr(type))

\* the payload's value under the key, Undefined without the key
C16_Field(data, key) ==
    IF \E i \in 1..Len(data.a) : data.a[i].k = key
    THEN data.a[CHOOSE i \in 1..Len(data.a) : data.a[i].k = key].v
    ELSE Undefined

C16_NoNullElement(v) == \A i \in 1..Len(v.a) : v.a[i].v.t \notin {"undefined", "null"}

\* the payloads the claim sends to the message: another inner type, 'grouped'
\* without groups, and the payloads whose series is empty
C16_NothingToShow(data) ==
    \/ ~(C16_Type(data, "grouped") \/ C16_Type(data, "trend") \/ C16_Type(data, "comparison"))
    \/ /\ C16_Type(data, "grouped")
       /\ \/ C16_Field(data, "groups").t \in {"undefined", "null"}
          \/ C16_Field(data, "groups") = JObj(<<>>)
    \/ /\ C16_Type(data, "trend")
       /\ \/ C16_Field(data, "data").t # "array"
          \/ C16_Field(data, "data") = JArr(<<>>)
    \/ /\ C16_Type(data, "comparison")
       /\ \/ C16_Field(data, "data").t \in {"undefined", "null"}
          \/ C16_Field(data, "data") = JObj(<<>>)

\* C16: for a chart_data payload the series is chosen by the inner type:
\* 'trend' yields one (period, mean) point per element of data in array
\* order, 'comparison' one (key, mean) point per key of data (the elements
\* and the values being objects to read period and mean from); any other
\* type, a 'grouped' payload without groups and any payload that yields an
\* empty series render "Unable to visualize this data." instead of a chart.
C16_SeriesByInnerType ==
    (rendered # NotRendered /\ response.result_type = "chart_data" /\ response.data.t = "object")
        => LET data == response.data
               inner == C16_Field(data, "data")
           IN  /\ (C16_Type(data, "trend") /\ inner.t = "array" /\ inner # JArr(<<>>)
                     /\ C16_NoNullElement(inner))
                    => /\ rendered.kind = "chart"
                       /\ Len(rendered.series) = Len(inner.a)
                       /\ \A i \in 1..Len(inner.a) :
                             /\ rendered.series[i].name = C16_Field(inner.a[i].v, "period")
                             /\ rendered.series[i].value = C16_Field(inner.a[i].v, "mean")
               /\ (C16_Type(data, "comparison") /\ inner.t = "object" /\ inner # JObj(<<>>)
                     /\ C16_NoNullElement(inner))
                    => /\ rendered.kind = "chart"
                       /\ Len(rendered.series) = Len(inner.a)
                       /\ \A i \in 1..Len(inner.a) : \E j \in 1..Len(rendered.series) :
                             /\ rendered.series[j].name = JStr(inner.a[i].k)
                             /\ rendered.series[j].value = C16_Field(inner.a[i].v, "mean")
               /\ C16_NothingToShow(data)
                    => rendered = Paragraph("Unable to visualize this data.")

\* the trend payload [Jan: 5, Feb: 3] was rendered as the chart
\* [(Jan, 5), (Feb, 3)]
C16_Witness ==
    /\ response.result_type = "chart_data"
    /\ C16_Type(response.data, "trend")
    /\ rendered.kind = "chart"
    /\ rendered.series = << Point(JStr("Jan"), JNum(5)), Point(JStr("Feb"), JNum(3)) >>

\* C20: for a response of result_type 'text' the text shown is the payload's
\* response field when data is a non-null object that has a 'response' key,
\* and the response's message in every other case (data null, a string, a
\* number, an object without 'response').
C20_TextShowsResponseOrMessage ==
    (rendered # NotRendered /\ response.result_type = "text")
        => LET data == response.data
               hasResponse == /\ data.t \in {"object", "array"}
                              /\ \E i \in 1..Len(data.a) : data.a[i].k = "response"
           IN  /\ rendered.kind = "p"
               /\ hasResponse
                    => rendered.text =
                         StringOf(data.a[CHOOSE i \in 1..Len(data.a) : data.a[i].k = "response"].v)
               /\ ~hasResponse => rendered.text = response.message

\* the payload {response: null} of a text response with a message was
\* rendered as the text of its response field
C20_Witness ==
    /\ response.result_type = "text"
    /\ response.message = "Found 3 employees."
    /\ response.data = JObj(<< Prop("response", Null) >>)
    /\ rendered = Paragraph("null")

\* C25: for a table payload of N records the table has min(N, 10) rows, the
\* first records of the payload in its order, and the note 'Showing 10 of N
\* results' is there exactly when N > 10.
C25_FirstTenRows ==
    (rendered # NotRendered /\ response.result_type = "table" /\ IsArray(response.data)
        /\ Length(response.data) > 0
        /\ \A i \in 1..Length(response.data) : response.data.a[i].v.t \notin {"undefined", "null"})
        => LET N == Len(response.data.a)
           IN  /\ rendered.kind = "table"
               /\ Len(rendered.rows) = (IF N < 10 THEN N ELSE 10)
               /\ \A i \in 1..Len(rendered.rows) :
                     rendered.rows[i] = TableRow(response.data.a[i].v)
               /\ (rendered.total # 0) <=> (N > 10)
               /\ N > 10 => rendered.total = N

\* the payload of 11 records was rendered as the rows of the records 1 to 10
\* and the note 'Showing 10 of 11 results'
C25_Witness ==
    /\ response.result_type = "table"
    /\ Length(response.data) = 11
    /\ Len(rendered.rows) = 10
    /\ rendered.rows[1][1] = JNum(1)
    /\ rendered.rows[10][1] = JNum(10)
    /\ rendered.total = 11

----------------------------------------------------------------------------
(* Properties of both pages (SpecApp) *)

\* one page's requests over one step: one is sent exactly when the page's
\* mutation turns pending, and none when it turns to error
C10_Step(sent, sentNext, mutation, mutationNext, inflight, inflightNext) ==
    /\ sentNext \in {sent, sent + 1}
    /\ (sentNext = sent + 1) <=> (~isPending(mutation) /\ isPending(mutationNext))
    /\ (sentNext = sent + 1) => Cardinality(inflightNext \ inflight) = 1
    /\ (sentNext = sent) => inflightNext \subseteq inflight
    /\ (isError(mutationNext) /\ ~isError(mutation)) => sentNext = sent

\* C10: each accepted submission, of a prediction or of a query, causes
\* exactly one network request; a failed request is followed by no request
\* until the user submits again.
C10_OneRequestPerSubmission ==
    [][ /\ C10_Step(nlpSent, nlpSent', nlpMutation, nlpMutation', nlpInflight, nlpInflight')
        /\ C10_Step(predSent, predSent', predMutation, predMutation', predInflight,
                    predInflight') ]_vars

\* a query and a prediction were each sent once, the prediction failed, and
\* nothing was sent after the failure
C10_Witness ==
    /\ nlpSent = 1
    /\ predSent = 1
    /\ isError(predMutation)
    /\ predInflight = {}
    /\ predOrphans = {}
    /\ nlpInflight = {}
    /\ nlpOrphans = {}

\* a request of the mounted Predictions page settled without success
C11_PredictionFailed ==
    /\ route' = route
    /\ predInflight' # predInflight
    /\ predSent' = predSent
    /\ predMutation'.status # "success"

\* a request of the mounted NLP query page settled without success
C11_QueryFailed ==
    /\ route' = route
    /\ nlpInflight' # nlpInflight
    /\ nlpSent' = nlpSent
    /\ nlpMutation'.status # "success"

\* C11: when a prediction request fails the generic message is shown and the
\* result displayed before (or the empty state) stays exactly as it was; when
\* a query fails the generic banner is shown and the history is unchanged.
C11_FailureKeepsDisplay ==
    [][ /\ C11_PredictionFailed
            => /\ predErrorMessage' = "Failed to generate prediction. Please try again."
               /\ result' = result
        /\ C11_QueryFailed
            => /\ nlpErrorBanner' = "Failed to process query. Please try again."
               /\ history' = history ]_vars

\* the first prediction succeeded with the low-risk result, the second failed:
\* the message is shown beside the first result
C11_Witness ==
    /\ route = "/predictions"
    /\ predSent = 2
    /\ predInflight = {}
    /\ predErrorMessage # ""
    /\ result.risk_level = "low"
    /\ result.top_factors = <<factorAge, factorBmi, factorExpense>>

\* C12: in every reachable state at most one NLP query request and at most
\* one prediction request is in flight.
C12_AtMostOneInFlight ==
    /\ Cardinality(nlpInflight) + Cardinality(nlpOrphans) <= 1
    /\ Cardinality(predInflight) + Cardinality(predOrphans) <= 1

C12_NoSubmissionWhilePending ==
    /\ isPending(nlpMutation) => (nlpSent' = nlpSent /\ nlpInflight' \subseteq nlpInflight)
    /\ isPending(predMutation) => (predSent' = predSent /\ predInflight' \subseteq predInflight)

\* C12 for the mounted pages: while a request of the mounted page is pending
\* no further submission of that page starts, and at most one request of the
\* mounted NLP query page and at most one of the mounted Predictions page is
\* in flight (requests of pages unmounted since may be in flight beside it).
C12_AtMostOneInFlightPerMountedPage ==
    /\ [](/\ Cardinality(nlpInflight) <= 1
          /\ Cardinality(predInflight) <= 1
          /\ (nlpInflight # {}) <=> isPending(nlpMutation)
          /\ (predInflight # {}) <=> isPending(predMutation))
    /\ [][C12_NoSubmissionWhilePending]_vars

\* a query with text in the input is pending, its submit control is disabled
\* by the pending request alone, and a prediction request of the page left
\* before is still in flight
C12_Witness ==
    /\ route = "/query"
    /\ isPending(nlpMutation)
    /\ Trim(query) # <<>>
    /\ nlpSubmitDisabled
    /\ Cardinality(nlpInflight) = 1
    /\ Cardinality(predOrphans) = 1

C13_LatestReflected ==
    \A i \in 1..Len(history) : \A req \in nlpOrphans : history[i].response.req > req

C13_SupersededSettles ==
    /\ (nlpOrphans' \subseteq nlpOrphans /\ nlpOrphans' # nlpOrphans)
          => (history' = history /\ query' = query /\ nlpMutation' = nlpMutation)
    /\ (predOrphans' \subseteq predOrphans /\ predOrphans' # predOrphans)
          => (result' = result /\ predMutation' = predMutation)

\* C13: a superseded request's result is ignored: when a later submission was
\* made before an earlier request completed, the earlier request's completion
\* adds no history entry and replaces no displayed prediction result; the
\* page reflects only its latest completed mutation.
C13_SupersededResultIgnored == []C13_LatestReflected /\ [][C13_SupersededSettles]_vars

\* request 1 was superseded by request 2 and has not completed; the response
\* to request 2 is the history
C13_Witness ==
    /\ route = "/query"
    /\ nlpOrphans = {1}
    /\ Len(history) = 1
    /\ history[1].response.req = 2

\* one page's banner over one step in which the page stays mounted: shown
\* when a request of the page fails, gone when a submission starts or a
\* request succeeds, and as it was in every other step
C24_Step(shown, shownNext, sent, sentNext, inflight, inflightNext, mutationNext) ==
    LET submitted == sentNext = sent + 1
        settled == sentNext = sent /\ inflightNext # inflight
        succeeded == settled /\ mutationNext.status = "success"
        failed == settled /\ mutationNext.status # "success"
    IN  /\ failed => shownNext
        /\ submitted => ~shownNext
        /\ succeeded => ~shownNext
        /\ ~(submitted \/ settled) => (shownNext <=> shown)

\* C24: the error banner reflects only the most recent submission of the
\* page: it is shown exactly from the failure of the latest submission's
\* request on, and it is no longer shown once a later submission is pending
\* or has succeeded.
C24_BannerFollowsLatestSubmission ==
    [][ route' = route
          => /\ C24_Step(nlpErrorBanner # "", nlpErrorBanner' # "", nlpSent, nlpSent',
                         nlpInflight, nlpInflight', nlpMutation')
             /\ C24_Step(predErrorMessage # "", predErrorMessage' # "", predSent, predSent',
                         predInflight, predInflight', predMutation') ]_vars

\* the first query failed and the second is pending: no banner
C24_Witness ==
    /\ route = "/query"
    /\ nlpSent = 2
    /\ nlpOrphans = {}
    /\ history = <<>>
    /\ isPending(nlpMutation)
    /\ nlpErrorBanner = ""

\* C21: every submitted request eventually leaves the pending state, by
\* success or by failure (the 30 s timeout of the HTTP client at the latest);
\* the page never stays pending forever.
C21_PendingEnds ==
    /\ isPending(nlpMutation) ~> ~isPending(nlpMutation)
    /\ isPending(predMutation) ~> ~isPending(predMutation)

\* the query ' a ' failed: the page is no longer pending and its submit
\* control can be used again
C21_Witness ==
    /\ route = "/query"
    /\ nlpSent = 1
    /\ nlpInflight = {}
    /\ isError(nlpMutation)
    /\ ~nlpSubmitDisabled

C29_DeclaredRoutes == { "/", "/predictions", "/employees", "/analytics", "/query" }

C29_Redirects ==
    \A path \in Paths :
        Navigate(path) => route' = (IF path \in C29_DeclaredRoutes THEN path ELSE "/")

\* C29: every navigation ends on one of the five declared routes: any other
\* path, the sidebar's /settings and /help among them, is redirected to '/'.
C29_NavigationEndsOnDeclaredRoute ==
    [](route \in C29_DeclaredRoutes) /\ [][C29_Redirects]_vars

\* a query was sent from /query and the sidebar's /settings or /help link was
\* followed: the Dashboard route is mounted
C29_Witness ==
    /\ route = "/"
    /\ nlpSent = 1
    /\ nlpOrphans = {1}

----------------------------------------------------------------------------
(* Properties of the Employees page (SpecEmployees) *)

\* the fields of the filter state outside keys are left as they were
C26_Kept(keys) == \A k \in (DOMAIN filters) \ keys : filters'[k] = filters[k]

C26_SortFrame ==
    \A field \in SortFields :
        handleSort(field) =>
            /\ filters'.page = 1
            /\ filters'.sort_by = field
            /\ C26_Kept({ "page", "sort_by", "sort_order" })

C26_FilterFrame ==
    \A key \in FilterKeys :
        \A value \in FilterSamples(key) :
            handleFilterChange(key, value) =>
                /\ filters'.page = 1
                /\ filters'[key] = value
                /\ C26_Kept({ "page", key })

C26_PageFrame ==
    (PreviousPage \/ NextPage) =>
        /\ filters'.page # filters.page
        /\ C26_Kept({ "page" })

\* C26: on the Employees page every sort change and every filter change
\* resets page to 1 and changes nothing else in the filter state besides its
\* own target (sort_by and sort_order, or the one filter key), and a page
\* change changes only page.
C26_HandlersChangeOnlyTheirTarget ==
    [][C26_SortFrame /\ C26_FilterFrame /\ C26_PageFrame]_vars

\* page 2 of the employees of at least 30, sorted by age: the page change
\* kept the filter and the sort, which were set from page 1
C26_Witness ==
    /\ route = "/employees"
    /\ filters.page = 2
    /\ filters.min_age = Only(30)
    /\ filters.sort_by = "age"
    /\ empData.loaded

C27_Order(field) ==
    IF filters.sort_by = field /\ filters.sort_order = "asc" THEN "desc" ELSE "asc"

\* C27: sorting by a column gives 'desc' exactly when the state before the
\* click was the same column in 'asc' order, and 'asc' otherwise: repeated
\* clicks on one column alternate, the first click on another column gives
\* 'asc'.
C27_SortOrderRule ==
    [][\A field \in SortFields :
          handleSort(field) =>
              /\ filters'.sort_by = field
              /\ filters'.sort_order = C27_Order(field)
              /\ (filters.sort_by # field => filters'.sort_order = "asc")
              /\ (filters.sort_by = field => filters'.sort_order # filters.sort_order)]_vars

\* the Age header was clicked twice: age, descending
C27_Witness ==
    /\ route = "/employees"
    /\ filters.sort_by = "age"
    /\ filters.sort_order = "desc"

\* C28: the requested page number is at least 1 in every reachable state,
\* and a page requested through the previous or the next button lies within
\* [1, total_pages] of the response on display.
C28_RequestedPageInRange ==
    /\ [](filters.page >= 1)
    /\ [][(PreviousPage \/ NextPage) => filters'.page \in 1..empData.total_pages]_vars

\* the last page of two is on display: it was requested through the next
\* button, which is now disabled
C28_Witness ==
    /\ route = "/employees"
    /\ empData.loaded
    /\ empData.page = 2
    /\ empData.total_pages = 2
    /\ filters.page = 2
    /\ ~ENABLED NextPage

====
